---- MODULE Spec2Model ----
(***************************************************************************)
(* slog-kickstarter: the builder SlogKickstarter (src/src/lib.rs), the     *)
(* drain stack its init assembles (Json | CompactFormat, wrapped by the    *)
(* slog_envlogger filter, wrapped by slog_async::Async, each fused) and    *)
(* the root Logger it returns.                                             *)
(*                                                                         *)
(* Strings are sequences of tokens.  A token is one character of a module  *)
(* path ("a", "b"), one separator of the RUST_LOG syntax (",", "=", "/")   *)
(* or one whole level word ("warning", "trace", ...): a level word is the  *)
(* only thing FilterLevel::from_str accepts, so it is kept atomic.         *)
(***************************************************************************)
EXTENDS Naturals, Sequences, FiniteSets

VARIABLES
    env,        \* the process environment: RUST_LOG_JSON and RUST_LOG
    pc,         \* "building": a builder exists; "built": init has returned
    builder,    \* cfg: the SlogKickstarter value; history: jsonAtNew, whether
                \* RUST_LOG_JSON was "1" when new ran, and forced, whether
                \* with_json_logging / without_json_logging was applied
    logger,     \* the Logger returned by the latest init (NoLogger before)
    stdlog,     \* the log crate's process-wide logger slot and the Result
                \* of the latest slog_stdlog::init()
    children,   \* Loggers derived with Logger::new from the root
    lastRecord, \* the key/value pairs of the record serialized last
    chan,       \* slog_async's bounded channel
    dropped,    \* slog_async's counter of records dropped on overflow
    worker,     \* slog_async's consumer thread: "running" | "panicked"
    out,        \* what the consumer has written to the output drain
    todo,       \* per producer thread: the records it has yet to emit
    caller,     \* per producer thread: "ok" | "panicked"
    sent,       \* history: per producer, the records emitted so far
    overflowed, \* history: records Async dropped because the channel was full
    lostInFlight \* history: records lost to the consumer's death: those
                \* queued at that point and those emitted afterwards

vars == <<env, pc, builder, logger, stdlog, children, lastRecord,
          chan, dropped, worker, out, todo, caller, sent, overflowed,
          lostInFlight>>

configVars == <<env, pc, builder, logger, stdlog>>
loggerVars == <<children, lastRecord>>
asyncVars  == <<chan, dropped, worker, out, todo, caller, sent, overflowed,
                lostInFlight>>

(***************************************************************************)
(* Bounds of the model.                                                    *)
(***************************************************************************)
MaxDebugModules == 2    \* calls of with_debug_log_for on one builder
MaxRules        == 2    \* comma-separated rules in RUST_LOG
MaxChildren     == 2    \* Loggers derived from the root
MaxRecords      == 2    \* records one producer thread emits
ChanSize        == 2    \* capacity of the Async channel (slog_async's
                        \* default of 128, scaled down)

(***************************************************************************)
(* slog::FilterLevel and slog::Level, by their as_usize().                 *)
(***************************************************************************)
Off      == 0
Critical == 1
Error    == 2
Warning  == 3
Info     == 4
Debug    == 5
Trace    == 6

\* slog::Level: the levels a record can have.
Levels == Critical..Trace

\* FilterLevel::from_str: the level a word names, by its full name.
LevelWords == {"off", "critical", "error", "warning", "info", "debug", "trace"}

LevelOfWord(w) ==
    CASE w = "off"      -> Off
      [] w = "critical" -> Critical
      [] w = "error"    -> Error
      [] w = "warning"  -> Warning
      [] w = "info"     -> Info
      [] w = "debug"    -> Debug
      [] w = "trace"    -> Trace

\* str::parse::<FilterLevel>() succeeds on a string that is one level word.
IsLevel(s) == Len(s) = 1 /\ s[1] \in LevelWords

(***************************************************************************)
(* String helpers.                                                         *)
(***************************************************************************)
\* str::starts_with
StartsWith(s, p) == Len(p) <= Len(s) /\ SubSeq(s, 1, Len(p)) = p

\* str::contains
Contains(s, p) ==
    \E i \in 0..(Len(s) - Len(p)) : SubSeq(s, i + 1, i + Len(p)) = p

\* str::split(sep): the parts between the separators, empty parts included;
\* the empty string splits into one empty part.
RECURSIVE SplitFrom(_, _, _)
SplitFrom(s, sep, cur) ==
    IF s = <<>> THEN <<cur>>
    ELSE IF Head(s) = sep
         THEN <<cur>> \o SplitFrom(Tail(s), sep, <<>>)
         ELSE SplitFrom(Tail(s), sep, Append(cur, Head(s)))

Split(s, sep) == SplitFrom(s, sep, <<>>)

(***************************************************************************)
(* slog_envlogger, as the two setup functions use it.                      *)
(***************************************************************************)
\* LogDirective { name: Option<String>, level: FilterLevel }
Directive(hasName, name, level) ==
    [hasName |-> hasName, name |-> name, level |-> level]

NameLen(d) == IF d.hasName THEN Len(d.name) ELSE 0

\* One rule of the spec, split at '=': the directive it adds, if any.
\* A bare level is the global fallback; a bare word or "word=" enables
\* everything (FilterLevel::max()) for that module; "word=<no level>" and a
\* rule with two '=' print a warning and are skipped.
ParseRule(s) ==
    LET parts == Split(s, "=")
    IN  IF Len(s) = 0 THEN <<>>
        ELSE IF Len(parts) = 1
             THEN IF IsLevel(parts[1])
                  THEN <<Directive(FALSE, <<>>, LevelOfWord(parts[1][1]))>>
                  ELSE <<Directive(TRUE, parts[1], Trace)>>
        ELSE IF Len(parts) = 2
             THEN IF parts[2] = <<>>
                  THEN <<Directive(TRUE, parts[1], Trace)>>
                  ELSE IF IsLevel(parts[2])
                       THEN <<Directive(TRUE, parts[1], LevelOfWord(parts[2][1]))>>
                       ELSE <<>>
        ELSE <<>>

\* Variant of ParseRules that gives up at the first rule it cannot parse.
RECURSIVE ParseRulesStopAtBad(_)
ParseRulesStopAtBad(rules) ==
    IF rules = <<>> THEN <<>>
    ELSE IF Head(rules) # <<>> /\ ParseRule(Head(rules)) = <<>>
         THEN <<>>
         ELSE ParseRule(Head(rules)) \o ParseRulesStopAtBad(Tail(rules))

RECURSIVE ParseRules(_)
ParseRules(rules) ==
    IF rules = <<>> THEN <<>>
    ELSE ParseRule(Head(rules)) \o ParseRules(Tail(rules))

\* parse_logging_spec: "rules/filter".  More than one '/' makes the whole
\* spec ignored (a warning is printed).
ParseLoggingSpec(spec) ==
    LET parts == Split(spec, "/")
    IN  IF Len(parts) > 2
        THEN [directives |-> <<>>, hasFilter |-> FALSE, filter |-> <<>>]
        ELSE [directives |-> ParseRules(Split(parts[1], ",")),
              hasFilter  |-> Len(parts) = 2,
              filter     |-> IF Len(parts) = 2 THEN parts[2] ELSE <<>>]

\* A LogBuilder: the directives pushed so far and the message filter.
EnvLogBuilderNew == [directives |-> <<>>, hasFilter |-> FALSE, filter |-> <<>>]

\* LogBuilder::filter(module, level): pushes one directive.
BuilderFilter(b, hasName, name, level) ==
    [b EXCEPT !.directives = Append(@, Directive(hasName, name, level))]

\* LogBuilder::parse(filters): sets the message filter, pushes the rules.
BuilderParse(b, spec) ==
    LET p == ParseLoggingSpec(spec)
    IN  [directives |-> b.directives \o p.directives,
         hasFilter  |-> p.hasFilter,
         filter     |-> p.filter]

\* The stable sort by name length of LogBuilder::build (insertion sort:
\* an element goes after the elements that are not longer).
RECURSIVE InsertByLen(_, _)
InsertByLen(sorted, d) ==
    IF sorted = <<>> THEN <<d>>
    ELSE IF NameLen(Head(sorted)) <= NameLen(d)
         THEN <<Head(sorted)>> \o InsertByLen(Tail(sorted), d)
         ELSE <<d>> \o sorted

RECURSIVE SortByLen(_)
SortByLen(ds) ==
    IF ds = <<>> THEN <<>>
    ELSE InsertByLen(SortByLen(SubSeq(ds, 1, Len(ds) - 1)), ds[Len(ds)])

\* Variant of BuilderBuild that keeps the directives in the order added, so
\* that the rule added last decides.
BuilderBuildUnsorted(b) ==
    [directives |-> IF b.directives = <<>>
                    THEN <<Directive(FALSE, <<>>, Error)>>
                    ELSE b.directives,
     hasFilter  |-> b.hasFilter,
     filter     |-> b.filter]

\* LogBuilder::build: Error for everything when nothing was configured,
\* else the directives sorted by the length of their name.
BuilderBuild(b) ==
    [directives |-> IF b.directives = <<>>
                    THEN <<Directive(FALSE, <<>>, Error)>>
                    ELSE SortByLen(b.directives),
     hasFilter  |-> b.hasFilter,
     filter     |-> b.filter]

\* Variant of Enabled in which a named directive applies only to the module
\* path equal to its name.
RECURSIVE EnabledFromExact(_, _, _, _)
EnabledFromExact(ds, i, level, module) ==
    IF i = 0 THEN FALSE
    ELSE IF ds[i].hasName /\ module # ds[i].name
         THEN EnabledFromExact(ds, i - 1, level, module)
         ELSE level <= ds[i].level

EnabledExact(ds, level, module) == EnabledFromExact(ds, Len(ds), level, module)

\* EnvLogger::enabled: the directives are searched from the last to the
\* first; the first one with no name or with a name the module path starts
\* with decides.
RECURSIVE EnabledFrom(_, _, _, _)
EnabledFrom(ds, i, level, module) ==
    IF i = 0 THEN FALSE
    ELSE IF ds[i].hasName /\ ~StartsWith(module, ds[i].name)
         THEN EnabledFrom(ds, i - 1, level, module)
         ELSE level <= ds[i].level

Enabled(ds, level, module) == EnabledFrom(ds, Len(ds), level, module)

\* EnvLogger::log: the record goes on to the wrapped drain when its level is
\* enabled for its module and its message matches the filter, if there is one.
EnvLoggerPasses(f, level, module, msg) ==
    /\ Enabled(f.directives, level, module)
    /\ f.hasFilter => Contains(msg, f.filter)

(***************************************************************************)
(* The process environment.                                                *)
(***************************************************************************)
\* One variable of the environment: unset, or set to a string.
Unset    == [set |-> FALSE, val |-> <<>>]
SetTo(v) == [set |-> TRUE, val |-> v]

\* env::var(..).unwrap_or_default(): the empty string when unset.
UnwrapOrDefault(v) == IF v.set THEN v.val ELSE <<>>

\* env::var("RUST_LOG_JSON").map(|v| v == "1").unwrap_or_default()
JsonRequested(v) == v.set /\ v.val = <<"1">>

\* The values of RUST_LOG_JSON the model draws from.
JsonValues == {Unset, SetTo(<<"0">>), SetTo(<<"1">>)}

\* The rules the model composes RUST_LOG from: a bare level, module=level
\* for a module the builder may also name, and module=<not a level> (a rule
\* that does not parse).
Rules == { <<"warning">>,
           <<"a", "=", "trace">>,
           <<"a", "=", "b">> }

RECURSIVE JoinRules(_)
JoinRules(rs) ==
    IF rs = <<>> THEN <<>>
    ELSE IF Len(rs) = 1 THEN rs[1]
    ELSE rs[1] \o <<",">> \o JoinRules(Tail(rs))

RuleLists == UNION { [1..n -> Rules] : n \in 0..MaxRules }

\* The values of RUST_LOG the model draws from: unset, up to MaxRules rules
\* joined by commas, a bare module path, "module=", a spec with a message
\* filter and a spec with two '/'.
LogValues ==
    {Unset}
    \cup { SetTo(JoinRules(rs)) : rs \in RuleLists }
    \cup { SetTo(<<"b">>),
           SetTo(<<"b", "=">>),
           SetTo(<<"trace", "/", "b">>),
           SetTo(<<"trace", "/", "b", "/", "a">>) }

(***************************************************************************)
(* SlogKickstarter, the builder.                                           *)
(***************************************************************************)
\* The module names with_debug_log_for is called with, and the module paths
\* records come from: "ab" is a path that starts with the name "a".
DebugNames  == { <<"a">>, <<"a", "b">> }
ModulePaths == { <<"a">>, <<"a", "b">>, <<"b">>, <<"b", "a">> }

\* The levels with_default_level is called with.
DefaultLevels == {Warning, Trace}

ServiceNames == {"svc"}

\* SlogKickstarter::new
NewBuilder(service_name, e) ==
    [default_filter_level |-> Info,
     debug_modules        |-> <<>>,
     service_name         |-> service_name,
     init_std_log         |-> TRUE,
     use_json_logging     |-> JsonRequested(e.RUST_LOG_JSON)]

\* The fold over debug_modules of both setup functions.
RECURSIVE FoldDebugModules(_, _)
FoldDebugModules(b, mods) ==
    IF mods = <<>> THEN b
    ELSE FoldDebugModules(BuilderFilter(b, TRUE, Head(mods), Debug), Tail(mods))

\* setup_json_logging: the Json drain under the filter (the Async wrapper
\* around it is the channel and its consumer, modelled below).
SetupJsonLogging(b, e) ==
    [format |-> "json",
     filter |-> BuilderBuild(
                  BuilderParse(
                    FoldDebugModules(
                      BuilderFilter(EnvLogBuilderNew, FALSE, <<>>,
                                    b.default_filter_level),
                      b.debug_modules),
                    UnwrapOrDefault(e.RUST_LOG)))]

\* Variant of SetupTermLogging without the fold over debug_modules.
SetupTermLoggingNoOverrides(b, e) ==
    [format |-> "term",
     filter |-> BuilderBuild(
                  BuilderParse(
                    BuilderFilter(EnvLogBuilderNew, FALSE, <<>>,
                                  b.default_filter_level),
                    UnwrapOrDefault(e.RUST_LOG)))]

\* setup_term_logging: the same filter over the CompactFormat drain.
SetupTermLogging(b, e) ==
    [format |-> "term",
     filter |-> BuilderBuild(
                  BuilderParse(
                    FoldDebugModules(
                      BuilderFilter(EnvLogBuilderNew, FALSE, <<>>,
                                    b.default_filter_level),
                      b.debug_modules),
                    UnwrapOrDefault(e.RUST_LOG)))]

\* Variant of InitDrain that looks at RUST_LOG_JSON itself instead of the
\* flag new stored.
InitDrainByEnv(b, e) ==
    IF JsonRequested(e.RUST_LOG_JSON) THEN SetupJsonLogging(b, e)
    ELSE SetupTermLogging(b, e)

\* The drain init chooses.
InitDrain(b, e) ==
    IF b.use_json_logging THEN SetupJsonLogging(b, e)
    ELSE SetupTermLogging(b, e)

\* The static and dynamic values of the root Logger (the o! of init), in
\* the order written; "module" is a FnValue, evaluated per record.
KV(k, v) == [key |-> k, val |-> v, lazy |-> FALSE]
FnKV(k)  == [key |-> k, val |-> "", lazy |-> TRUE]

RootValues(b) ==
    << KV("version", "CARGO_PKG_VERSION"),
       KV("service", b.service_name),
       KV("log_type", "application"),
       KV("application_type", "service"),
       FnKV("module") >>

\* What init returns: slog::Logger::root(drain, o!(...)).
LoggerRoot(b, e) ==
    LET d == InitDrain(b, e)
    IN  [built  |-> TRUE,
         format |-> d.format,
         filter |-> d.filter,
         values |-> RootValues(b)]

NoLogger ==
    [built  |-> FALSE,
     format |-> "none",
     filter |-> EnvLogBuilderNew,
     values |-> <<>>]

\* Variant of StdlogInit in which a later installation replaces the earlier.
StdlogInitReplace(s) == [installed |-> TRUE, result |-> "Ok"]

\* slog_stdlog::init(): log::set_boxed_logger succeeds once per process;
\* the log crate has no way to take the logger out again.
StdlogInit(s) ==
    [installed |-> TRUE,
     result    |-> IF s.installed THEN "Err" ELSE "Ok"]

\* The if-block of init: the Result is bound to _guard and dropped.
InitStdlog(b, s) ==
    IF b.init_std_log THEN StdlogInit(s)
    ELSE [installed |-> s.installed, result |-> "skipped"]

(***************************************************************************)
(* The actions of the builder and of the environment.                      *)
(***************************************************************************)
\* The process sets RUST_LOG_JSON or RUST_LOG (std::env::set_var) while it
\* holds a builder.
SetEnvJson(v) ==
    /\ pc = "building"
    /\ env' = [env EXCEPT !.RUST_LOG_JSON = v]
    /\ UNCHANGED <<pc, builder, logger, stdlog, loggerVars, asyncVars>>

SetEnvLog(v) ==
    /\ pc = "building"
    /\ env' = [env EXCEPT !.RUST_LOG = v]
    /\ UNCHANGED <<pc, builder, logger, stdlog, loggerVars, asyncVars>>

\* SlogKickstarter::new(service_name): a fresh builder.
New(service_name) ==
    /\ pc' = "building"
    /\ builder' = [cfg      |-> NewBuilder(service_name, env),
                   jsonAtNew |-> JsonRequested(env.RUST_LOG_JSON),
                   forced   |-> FALSE]
    /\ logger' = NoLogger
    /\ stdlog' = [stdlog EXCEPT !.result = "none"]
    /\ UNCHANGED <<env, loggerVars, asyncVars>>

BuilderStep(cfg) ==
    /\ pc = "building"
    /\ builder' = [builder EXCEPT !.cfg = cfg]
    /\ UNCHANGED <<env, pc, logger, stdlog, loggerVars, asyncVars>>

WithDebugLogFor(module_name) ==
    /\ Len(builder.cfg.debug_modules) < MaxDebugModules
    /\ BuilderStep([builder.cfg EXCEPT
                      !.debug_modules = Append(@, module_name)])

WithDefaultLevel(level) ==
    BuilderStep([builder.cfg EXCEPT !.default_filter_level = level])

WithJsonLogging ==
    /\ pc = "building"
    /\ builder' = [builder EXCEPT !.cfg.use_json_logging = TRUE,
                                  !.forced = TRUE]
    /\ UNCHANGED <<env, pc, logger, stdlog, loggerVars, asyncVars>>

WithoutJsonLogging ==
    /\ pc = "building"
    /\ builder' = [builder EXCEPT !.cfg.use_json_logging = FALSE,
                                  !.forced = TRUE]
    /\ UNCHANGED <<env, pc, logger, stdlog, loggerVars, asyncVars>>

WithoutStdlog ==
    BuilderStep([builder.cfg EXCEPT !.init_std_log = FALSE])

\* SlogKickstarter::init: builds the drain, installs the log-crate bridge
\* when asked to, returns the root Logger.  It has no failing path.
InitCall ==
    /\ pc' = "built"
    /\ logger' = LoggerRoot(builder.cfg, env)
    /\ stdlog' = InitStdlog(builder.cfg, stdlog)
    /\ UNCHANGED <<env, builder, loggerVars, asyncVars>>

\* The Logger returned by init goes out of scope; the builder stays.
DropLogger ==
    /\ pc = "built"
    /\ pc' = "building"
    /\ logger' = NoLogger
    /\ stdlog' = [stdlog EXCEPT !.result = "none"]
    /\ UNCHANGED <<env, builder, loggerVars, asyncVars>>

\* No record has been serialized yet.
NoRecord == [by |-> 0, emitted |-> FALSE, fields |-> <<>>]

\* Nothing has been logged: no child Logger, an empty channel, no producer.
IdleAsync ==
    /\ children = <<>>
    /\ lastRecord = NoRecord
    /\ chan = <<>>
    /\ dropped = 0
    /\ worker = "running"
    /\ out = <<>>
    /\ todo = <<>>
    /\ caller = <<>>
    /\ sent = <<>>
    /\ overflowed = {}
    /\ lostInFlight = {}

Init ==
    /\ env \in [RUST_LOG_JSON : JsonValues, RUST_LOG : LogValues]
    /\ pc = "building"
    /\ \E s \in ServiceNames :
         builder = [cfg      |-> NewBuilder(s, env),
                    jsonAtNew |-> JsonRequested(env.RUST_LOG_JSON),
                    forced   |-> FALSE]
    /\ logger = NoLogger
    /\ stdlog = [installed |-> FALSE, result |-> "none"]
    /\ IdleAsync

\* One process: its environment is the one it was started with.
Next ==
    \/ \E s \in ServiceNames : New(s)
    \/ \E m \in DebugNames : WithDebugLogFor(m)
    \/ \E l \in DefaultLevels : WithDefaultLevel(l)
    \/ WithJsonLogging
    \/ WithoutJsonLogging
    \/ WithoutStdlog
    \/ InitCall
    \/ DropLogger

Spec == Init /\ [][Next]_vars

\* A process that also changes its own environment between the calls
\* (std::env::set_var), over a few values of RUST_LOG.
EnvLogValues == {Unset, SetTo(<<"warning">>)}

InitEnv ==
    /\ Init
    /\ env.RUST_LOG \in EnvLogValues

NextEnv ==
    \/ Next
    \/ \E v \in JsonValues : SetEnvJson(v)
    \/ \E v \in EnvLogValues : SetEnvLog(v)

SpecEnv == InitEnv /\ [][NextEnv]_vars

(***************************************************************************)
(* Vocabulary of the claims about the level filter.                        *)
(***************************************************************************)
\* The effective minimum level of a module under a built filter: the number
\* of record levels (Critical = 1 .. Trace = 6) the filter lets through.
Threshold(ds, module) ==
    Cardinality({l \in Levels : Enabled(ds, l, module)})

\* The filter of the Logger init returned.
Effective(module) == Threshold(logger.filter.directives, module)

\* The record is let through by the filter whatever its message.
Retained(level, module) ==
    \A msg \in {<<>>, <<"b">>} :
        EnvLoggerPasses(logger.filter, level, module, msg)

\* RUST_LOG is unset or empty.
NoDirective == env.RUST_LOG \in {Unset, SetTo(<<>>)}

\* The module names registered with with_debug_log_for.
Registered ==
    {builder.cfg.debug_modules[i] : i \in 1..Len(builder.cfg.debug_modules)}

HasRegisteredPrefix(module) == \E n \in Registered : StartsWith(module, n)

\* The rules in the order they are added: the builder default, the builder
\* overrides in call order, the rules of RUST_LOG from left to right.
AddedRules ==
    <<Directive(FALSE, <<>>, builder.cfg.default_filter_level)>>
    \o [i \in 1..Len(builder.cfg.debug_modules) |->
          Directive(TRUE, builder.cfg.debug_modules[i], Debug)]
    \o ParseLoggingSpec(UnwrapOrDefault(env.RUST_LOG)).directives

Matches(d, module) == ~d.hasName \/ StartsWith(module, d.name)

\* The rule that decides for a module: a matching rule with the longest
\* name and, among those, the one added last.
Deciding(rs, module) ==
    CHOOSE i \in 1..Len(rs) :
        /\ Matches(rs[i], module)
        /\ \A j \in 1..Len(rs) :
             Matches(rs[j], module) =>
                \/ NameLen(rs[j]) < NameLen(rs[i])
                \/ NameLen(rs[j]) = NameLen(rs[i]) /\ j <= i

\* The rules of a directive string, and the string's shape.
RulesOf(spec) == Split(Split(spec, "/")[1], ",")
SlashCount(spec) == Len(Split(spec, "/")) - 1

\* A rule that is a level or module=level.
IsWellFormedRule(r) ==
    LET parts == Split(r, "=")
    IN  \/ Len(parts) = 1 /\ IsLevel(parts[1])
        \/ Len(parts) = 2 /\ parts[1] # <<>> /\ ~IsLevel(parts[1])
                          /\ IsLevel(parts[2])

\* A directive string of well-formed rules only, with no message filter.
IsWellFormed(spec) ==
    /\ SlashCount(spec) = 0
    /\ \A i \in 1..Len(RulesOf(spec)) : IsWellFormedRule(RulesOf(spec)[i])

\* A rule that cannot be parsed: module=<not a level>, or two '='.
IsUnparseableRule(r) ==
    LET parts == Split(r, "=")
    IN  \/ Len(parts) = 2 /\ parts[2] # <<>> /\ ~IsLevel(parts[2])
        \/ Len(parts) > 2

HasUnparseableRule(spec) ==
    \/ SlashCount(spec) > 1
    \/ \E i \in 1..Len(RulesOf(spec)) : IsUnparseableRule(RulesOf(spec)[i])

\* The level the precedence of the specification gives a module: the last
\* per-module rule of the directive, else the last bare level of the
\* directive, else the builder override, else the builder default.
\* (Matching is the filter's own, so that only the precedence is at stake.)
ClaimedLevel(module) ==
    LET ds == ParseLoggingSpec(UnwrapOrDefault(env.RUST_LOG)).directives
        named == {i \in 1..Len(ds) : ds[i].hasName /\ Matches(ds[i], module)}
        bare  == {i \in 1..Len(ds) : ~ds[i].hasName}
        Last(S) == CHOOSE i \in S : \A j \in S : j <= i
    IN  IF named # {} THEN ds[Last(named)].level
        ELSE IF bare # {} THEN ds[Last(bare)].level
        ELSE IF HasRegisteredPrefix(module) THEN Debug
        ELSE builder.cfg.default_filter_level

(***************************************************************************)
(* C1.  Precedence of the level settings.                                  *)
(***************************************************************************)
\* C1, as claimed: for every module, builder configuration and well-formed
\* directive string the effective level follows builder default < builder
\* override < directive global level < directive per-module rule, so a
\* directive setting always wins over a builder setting.
C1_DirectiveAlwaysWins ==
    (pc = "built" /\ IsWellFormed(UnwrapOrDefault(env.RUST_LOG)))
        => \A m \in ModulePaths : Effective(m) = ClaimedLevel(m)

\* C1, amended: the effective level of a module is the level of the
\* matching rule with the longest module name (a rule without a name has
\* length 0 and matches every module) and, among matching rules of the same
\* length, of the one added last (builder default, builder overrides,
\* directive rules left to right).  Hence a bare-level directive replaces
\* the builder default level but leaves a builder per-module override in
\* force, and a directive rule for a module replaces the builder override
\* of the same name.
C1_LongestNameThenLatest ==
    pc = "built" =>
        /\ \A m \in ModulePaths :
             Effective(m) = AddedRules[Deciding(AddedRules, m)].level
        /\ \A w \in LevelWords :
             env.RUST_LOG = SetTo(<<w>>) =>
                \A m \in ModulePaths :
                    Effective(m) = IF HasRegisteredPrefix(m) THEN Debug
                                   ELSE LevelOfWord(w)
        /\ \A n \in Registered, w \in LevelWords :
             env.RUST_LOG = SetTo(n \o <<"=", w>>) =>
                Effective(n) = LevelOfWord(w)

\* C1, witness: RUST_LOG=warning with a builder override for "a": the
\* override stays at Debug, the other modules are at Warning.
C1_Witness ==
    /\ pc = "built"
    /\ env.RUST_LOG = SetTo(<<"warning">>)
    /\ builder.cfg.debug_modules = <<(<<"a">>)>>
    /\ Effective(<<"a">>) = Debug
    /\ Effective(<<"b">>) = Warning

(***************************************************************************)
(* C2.  Debug records with builder overrides and no directive.             *)
(***************************************************************************)
\* C2, as claimed: with RUST_LOG unset or empty and default level Info, a
\* Debug record of every registered module is retained and a Debug record
\* of every module that was not registered is dropped, in both pipelines.
C2_UnregisteredDropped ==
    (pc = "built" /\ NoDirective /\ builder.cfg.default_filter_level = Info)
        => \A m \in ModulePaths :
              /\ m \in Registered => Retained(Debug, m)
              /\ m \notin Registered => ~Retained(Debug, m)

\* C2, amended: with RUST_LOG unset or empty and default level Info, in
\* both pipelines a Debug record is retained exactly when its module path
\* starts with a registered name; it is dropped for every module none of
\* whose prefixes is registered.
C2_DebugIffRegisteredPrefix ==
    (pc = "built" /\ NoDirective /\ builder.cfg.default_filter_level = Info)
        => /\ logger.format \in {"json", "term"}
           /\ \A m \in ModulePaths :
                Retained(Debug, m) <=> HasRegisteredPrefix(m)

\* C2, witness: the terminal pipeline with "a" registered keeps a Debug
\* record of "a" and drops the one of "b".
C2_Witness ==
    /\ pc = "built" /\ NoDirective
    /\ builder.cfg.default_filter_level = Info
    /\ logger.format = "term"
    /\ builder.cfg.debug_modules = <<(<<"a">>)>>
    /\ Retained(Debug, <<"a">>)
    /\ ~Retained(Debug, <<"b">>)

(***************************************************************************)
(* C3.  A rule of RUST_LOG that does not parse.                            *)
(***************************************************************************)
\* The directive string without its unparseable rules; a string with more
\* than one '/' counts as empty.
RECURSIVE KeepParseable(_)
KeepParseable(rs) ==
    IF rs = <<>> THEN <<>>
    ELSE IF IsUnparseableRule(Head(rs)) THEN KeepParseable(Tail(rs))
    ELSE <<Head(rs)>> \o KeepParseable(Tail(rs))

WithoutUnparseable(spec) ==
    IF SlashCount(spec) > 1 THEN <<>>
    ELSE JoinRules(KeepParseable(RulesOf(spec)))
         \o (IF SlashCount(spec) = 1
             THEN <<"/">> \o Split(spec, "/")[2] ELSE <<>>)

\* C3, as claimed: when RUST_LOG holds a rule that cannot be parsed, init
\* fails and returns no usable Logger.
C3_InitFailsOnBadRule ==
    HasUnparseableRule(UnwrapOrDefault(env.RUST_LOG)) => ~logger.built

\* C3, amended: init has no failing path and always returns a Logger.  A
\* rule that cannot be parsed is skipped (with a warning on standard
\* output) and the remaining settings stay in force: the filter is the one
\* the directive string without that rule gives; a directive string with
\* more than one '/' is ignored as a whole.
C3_BadRuleSkipped ==
    pc = "built" =>
        /\ logger.built
        /\ logger.filter =
             InitDrain(builder.cfg,
                       [env EXCEPT !.RUST_LOG =
                          SetTo(WithoutUnparseable(UnwrapOrDefault(@)))]).filter

\* C3, witness: RUST_LOG="a=b,warning": init returned a Logger whose
\* default threshold is Warning.
C3_Witness ==
    /\ pc = "built" /\ logger.built
    /\ env.RUST_LOG = SetTo(<<"a", "=", "b", ",", "warning">>)
    /\ builder.cfg.debug_modules = <<>>
    /\ Effective(<<"a">>) = Warning

(***************************************************************************)
(* C4.  Installing the log-crate bridge more than once.                    *)
(***************************************************************************)
\* C4, as claimed: an installation attempt succeeds exactly when no handle
\* of an earlier installation is live, and an attempt that fails is
\* reported to the caller.  init keeps no handle (the value bound to _guard
\* is dropped before init returns), so after every init with the bridge
\* enabled either the installation succeeded or the caller got no Logger.
C4_SucceedsOrReported ==
    (pc = "built" /\ builder.cfg.init_std_log)
        => (stdlog.result = "Ok" \/ ~logger.built)

\* C4, amended: an installation attempt succeeds exactly when no attempt
\* has succeeded before in the process.  There is no handle to release:
\* the first installation stays in effect for the rest of the process,
\* every later attempt fails with SetLoggerError, and the failure is not
\* reported, init returns a Logger all the same.
C4_InstalledOncePerProcess ==
    [][ /\ stdlog.installed => stdlog'.installed
        /\ (InitCall /\ builder.cfg.init_std_log) =>
              /\ stdlog'.result = (IF stdlog.installed THEN "Err" ELSE "Ok")
              /\ stdlog'.installed
              /\ logger'.built
        /\ (InitCall /\ ~builder.cfg.init_std_log) =>
              /\ stdlog'.installed = stdlog.installed
              /\ logger'.built ]_vars

\* C4, witness: a second init found the bridge installed, its attempt
\* failed and it returned a Logger.
C4_Witness ==
    /\ pc = "built" /\ builder.cfg.init_std_log
    /\ stdlog.installed /\ stdlog.result = "Err"
    /\ logger.built

C9_ExactMatchOnly ==
    (pc = "built" /\ NoDirective)
        => \A m \in ModulePaths :
              m \notin Registered =>
                 Effective(m) = builder.cfg.default_filter_level

\* C9, amended: a builder override applies to every module path that starts
\* with the registered name (str::starts_with on the raw path, so a
\* submodule M::sub and a longer name Mx are both covered); only a path
\* with no registered prefix is filtered with the default level.
C9_PrefixMatch ==
    (pc = "built" /\ NoDirective)
        => \A m \in ModulePaths :
              Effective(m) = IF HasRegisteredPrefix(m) THEN Debug
                             ELSE builder.cfg.default_filter_level

\* C9, witness: "a" is registered, "ab" is not, and "ab" is at Debug under
\* a default of Warning.
C9_Witness ==
    /\ pc = "built" /\ NoDirective
    /\ builder.cfg.default_filter_level = Warning
    /\ Registered = {<<"a">>}
    /\ Effective(<<"a", "b">>) = Debug
    /\ Effective(<<"b", "a">>) = Warning

(***************************************************************************)
(* C10.  Registering a module never makes logging less verbose.            *)
(***************************************************************************)
\* The builder without its i-th with_debug_log_for call.
WithoutRegistration(cfg, i) ==
    [cfg EXCEPT !.debug_modules =
        SubSeq(@, 1, i - 1) \o SubSeq(@, i + 1, Len(@))]

\* C10: with no directive, for every default level and every order of the
\* builder steps, a record the pipeline retains without a registration is
\* also retained with it.
C10_NeverLessVerbose ==
    (pc = "built" /\ NoDirective)
        => \A i \in 1..Len(builder.cfg.debug_modules) :
             \A m \in ModulePaths, l \in Levels :
                Enabled(InitDrain(WithoutRegistration(builder.cfg, i),
                                  env).filter.directives, l, m)
                    => Enabled(logger.filter.directives, l, m)

(***************************************************************************)
(* Loggers and records: slog::Logger::new and what a drain serializes.     *)
(***************************************************************************)
\* Level::as_str
LevelStr(l) ==
    CASE l = Critical -> "CRITICAL"
      [] l = Error    -> "ERROR"
      [] l = Warning  -> "WARNING"
      [] l = Info     -> "INFO"
      [] l = Debug    -> "DEBUG"
      [] l = Trace    -> "TRACE"

\* The o!(...) lists the example programs derive child Loggers with.
Extras == { <<KV("scope", "global")>>,
            <<KV("scope", "module-specific logger")>> }

\* Variant of LoggerNew that does not chain to the parent's values.
LoggerNewOwnOnly(parentValues, extra) == extra

\* Logger::new(o!(...)): a new Logger over the same drain whose values are
\* the new ones followed by the parent's; the parent is not touched.
LoggerNew(parentValues, extra) == extra \o parentValues

\* A FnValue is evaluated against the record being serialized.
Resolve(kv, rec) ==
    IF kv.lazy THEN [key |-> kv.key, val |-> rec.module] ELSE [key |-> kv.key, val |-> kv.val]

\* The keys the Json drain of setup_json_logging adds to every record
\* (add_key_value); the CompactFormat drain prints level and message itself.
DrainKeys(format, rec) ==
    IF format = "json"
    THEN << [key |-> "@timestamp", val |-> "Local::now()"],
            [key |-> "loglevel",   val |-> LevelStr(rec.level)],
            [key |-> "msg",        val |-> rec.msg] >>
    ELSE << [key |-> "level", val |-> LevelStr(rec.level)],
            [key |-> "msg",   val |-> rec.msg] >>

\* One serialized record: the drain's keys, then the Logger's values.
Serialize(format, values, rec) ==
    DrainKeys(format, rec) \o [i \in 1..Len(values) |-> Resolve(values[i], rec)]

\* The values of Logger number i: 0 is the root, i > 0 the i-th child.
ValuesOf(i) == IF i = 0 THEN logger.values ELSE children[i].values

\* root.new(o!(...)) or child.new(o!(...)).
NewChild(parent, extra) ==
    /\ pc = "built"
    /\ Len(children) < MaxChildren
    /\ parent \in 0..Len(children)
    /\ children' = Append(children,
                          [parent |-> parent,
                           own    |-> extra,
                           values |-> LoggerNew(ValuesOf(parent), extra)])
    /\ UNCHANGED <<configVars, lastRecord, asyncVars>>

\* A record logged through Logger i, as the drain under the filter
\* receives it (the channel in between is left out here).
Log(i, level, module) ==
    LET rec == [level |-> level, module |-> module, msg |-> "Hello"]
    IN  /\ pc = "built"
        /\ i \in 0..Len(children)
        /\ lastRecord' =
             IF Enabled(logger.filter.directives, level, module)
             THEN [by |-> i, emitted |-> TRUE,
                   fields |-> Serialize(logger.format, ValuesOf(i), rec)]
             ELSE NoRecord
        /\ UNCHANGED <<configVars, children, asyncVars>>

RunServiceNames == {"svc", "logging-example"}

InitLogger ==
    /\ env \in [RUST_LOG_JSON : {Unset, SetTo(<<"1">>)}, RUST_LOG : {Unset}]
    /\ pc = "built"
    /\ \E s \in RunServiceNames :
         builder = [cfg      |-> NewBuilder(s, env),
                    jsonAtNew |-> JsonRequested(env.RUST_LOG_JSON),
                    forced   |-> FALSE]
    /\ logger = LoggerRoot(builder.cfg, env)
    /\ stdlog = InitStdlog(builder.cfg, [installed |-> FALSE, result |-> "none"])
    /\ IdleAsync

NextLogger ==
    \/ \E parent \in 0..MaxChildren, extra \in Extras : NewChild(parent, extra)
    \/ \E i \in 0..MaxChildren, l \in {Info, Debug}, m \in ModulePaths :
          Log(i, l, m)

SpecLogger == InitLogger /\ [][NextLogger]_vars

(***************************************************************************)
(* C7.  Child Loggers.                                                     *)
(***************************************************************************)
\* The Loggers a Logger descends from, itself included.
RECURSIVE Chain(_)
Chain(i) == IF i = 0 THEN {0} ELSE {i} \cup Chain(children[i].parent)

\* The pairs among a serialized record's fields.
FieldSet(fields) == {fields[j] : j \in 1..Len(fields)}

OwnPairs(i) ==
    IF i = 0 THEN {}
    ELSE {[key |-> children[i].own[j].key, val |-> children[i].own[j].val] :
            j \in 1..Len(children[i].own)}

\* The four static pairs of init, with the values init gave them.
RootStatic ==
    { [key |-> "version",          val |-> "CARGO_PKG_VERSION"],
      [key |-> "service",          val |-> builder.cfg.service_name],
      [key |-> "log_type",         val |-> "application"],
      [key |-> "application_type", val |-> "service"] }

\* C7: deriving children leaves the root's values as init built them, and a
\* record of any Logger carries the four static root pairs with the root's
\* values, the extra pairs of that Logger and of the Loggers it descends
\* from, and no pair that only a Logger outside that line (a sibling) has.
C7_ChildrenShareRootFields ==
    /\ logger.values = RootValues(builder.cfg)
    /\ lastRecord.emitted =>
         LET fs == FieldSet(lastRecord.fields)
             line == Chain(lastRecord.by)
             mine == UNION {OwnPairs(k) : k \in line}
         IN  /\ RootStatic \subseteq fs
             /\ mine \subseteq fs
             /\ \E f \in fs : f.key = "module"
             /\ \A k \in 1..Len(children) :
                  k \notin line => (OwnPairs(k) \ mine) \cap fs = {}

\* C7, witness: two children of the root with different scopes exist and a
\* record of the second has been serialized.
C7_Witness ==
    /\ Len(children) = 2
    /\ children[1].parent = 0 /\ children[2].parent = 0
    /\ children[1].own # children[2].own
    /\ lastRecord.emitted /\ lastRecord.by = 2
    /\ [key |-> "scope", val |-> "module-specific logger"]
          \in FieldSet(lastRecord.fields)

(***************************************************************************)
(* slog_async::Async with its default settings, as both setup functions    *)
(* build it: a bounded channel, try_send (OverflowStrategy::DropAndReport), *)
(* one consumer thread.  The drain handed to it is the fused filter over   *)
(* the fused Json / CompactFormat drain; the Async drain itself is fused   *)
(* as well before it goes into the root Logger.                            *)
(***************************************************************************)
Producers == {1, 2}

\* The module each producer thread logs from.
ModuleOf(p) == IF p = 1 THEN <<"a">> ELSE <<"b">>

\* The k-th record of producer p.
Rec(p, k, level) ==
    [kind |-> "record", p |-> p, k |-> k, level |-> level,
     module |-> ModuleOf(p), msg |-> <<>>]

\* The record Async::push_dropped sends about earlier overflows.
Report(count) ==
    [kind |-> "report", p |-> 0, k |-> count, level |-> Error,
     module |-> <<"slog_async">>, msg |-> <<>>]

\* Variant of Fuse that ignores the error (Drain::ignore_res).
IgnoreRes(result) == "ok"

\* Fuse: Ok goes through, an error of the wrapped drain is a panic of the
\* calling thread.
Fuse(result) == IF result = "Ok" THEN "ok" ELSE "panicked"

\* SyncSender::try_send on the channel: Full when it holds ChanSize
\* messages.
HasRoom(c) == Len(c) < ChanSize

\* The filter in front of the output drain, run by the consumer.
PassesFilter(m) ==
    EnvLoggerPasses(logger.filter, m.level, m.module, m.msg)

\* Async::log on a live channel: push_dropped (a report of the records
\* dropped so far, if any, goes first; when even the report finds the
\* channel full the counter is restored plus one), then the record itself:
\* sent when there is room, counted as dropped when not.
AsyncLog(c, d, r) ==
    LET reportSent == d > 0 /\ HasRoom(c)
        c1 == IF reportSent THEN Append(c, Report(d)) ELSE c
        d1 == IF d = 0 \/ reportSent THEN 0 ELSE d + 1
        room == HasRoom(c1)
    IN  [chan    |-> IF room THEN Append(c1, r) ELSE c1,
         dropped |-> IF room THEN d1 ELSE d1 + 1,
         queued  |-> room]

\* Logger::log through the fused Async drain, on producer p's thread.
\* With the consumer gone the channel is disconnected: try_send fails with
\* AsyncError::Fatal and the Fuse around Async panics.
Emit(p) ==
    LET r == Head(todo[p])
        a == AsyncLog(chan, dropped, r)
    IN  /\ pc = "built"
        /\ todo[p] # <<>>
        /\ caller[p] = "ok"
        /\ todo' = [todo EXCEPT ![p] = Tail(@)]
        /\ sent' = [sent EXCEPT ![p] = Append(@, r)]
        /\ IF worker = "panicked"
           THEN /\ caller' = [caller EXCEPT ![p] = Fuse("Err")]
                /\ dropped' = 0
                /\ lostInFlight' = lostInFlight \cup {r}
                /\ UNCHANGED <<chan, overflowed>>
           ELSE /\ caller' = [caller EXCEPT ![p] = Fuse("Ok")]
                /\ chan' = a.chan
                /\ dropped' = a.dropped
                /\ overflowed' = IF a.queued THEN overflowed
                                 ELSE overflowed \cup {r}
                /\ UNCHANGED lostInFlight
        /\ UNCHANGED <<configVars, loggerVars, worker, out>>

\* Variant of Consume that takes the newest message of the channel first.
ConsumeNewestFirst ==
    /\ worker = "running"
    /\ chan # <<>>
    /\ chan' = SubSeq(chan, 1, Len(chan) - 1)
    /\ out' = IF PassesFilter(chan[Len(chan)])
              THEN Append(out, chan[Len(chan)]) ELSE out
    /\ UNCHANGED <<configVars, loggerVars, dropped, worker, todo, caller,
                   sent, overflowed, lostInFlight>>

\* The consumer thread takes the next message; the filter drops it or the
\* output drain writes it.
Consume ==
    /\ worker = "running"
    /\ chan # <<>>
    /\ chan' = Tail(chan)
    /\ out' = IF PassesFilter(Head(chan)) THEN Append(out, Head(chan)) ELSE out
    /\ UNCHANGED <<configVars, loggerVars, dropped, worker, todo, caller,
                   sent, overflowed, lostInFlight>>

\* The write to standard output fails: the Fuse around the output drain
\* panics on the consumer thread, which ends; the receiver is dropped with
\* whatever the channel still holds.
ConsumeWriteFails ==
    /\ worker = "running"
    /\ chan # <<>>
    /\ PassesFilter(Head(chan))
    /\ worker' = "panicked"
    /\ chan' = <<>>
    /\ lostInFlight' = lostInFlight \cup {chan[i] : i \in 1..Len(chan)}
    /\ UNCHANGED <<configVars, loggerVars, dropped, out, todo, caller,
                   sent, overflowed>>

\* The programs of the producer threads: MaxRecords records each, at Info
\* or Debug.
Programs(p) ==
    { [k \in 1..MaxRecords |-> Rec(p, k, lv[k])] :
        lv \in [1..MaxRecords -> {Info, Debug}] }

InitAsync ==
    /\ env = [RUST_LOG_JSON |-> Unset, RUST_LOG |-> Unset]
    /\ pc = "built"
    /\ \E mods \in {<<>>, <<(<<"a">>)>>} :
         builder = [cfg      |-> [NewBuilder("svc", env) EXCEPT
                                     !.debug_modules = mods],
                    jsonAtNew |-> JsonRequested(env.RUST_LOG_JSON),
                    forced   |-> FALSE]
    /\ logger = LoggerRoot(builder.cfg, env)
    /\ stdlog = InitStdlog(builder.cfg, [installed |-> FALSE, result |-> "none"])
    /\ children = <<>>
    /\ lastRecord = NoRecord
    /\ chan = <<>>
    /\ dropped = 0
    /\ worker = "running"
    /\ out = <<>>
    /\ todo \in [Producers -> UNION {Programs(p) : p \in Producers}]
    /\ \A p \in Producers : todo[p] \in Programs(p)
    /\ caller = [p \in Producers |-> "ok"]
    /\ sent = [p \in Producers |-> <<>>]
    /\ overflowed = {}
    /\ lostInFlight = {}

NextAsync ==
    \/ \E p \in Producers : Emit(p)
    \/ Consume
    \/ ConsumeWriteFails

SpecAsync == InitAsync /\ [][NextAsync]_vars

(***************************************************************************)
(* C5.  Delivery through the channel.                                      *)
(***************************************************************************)
\* The records of producer p among the messages of a sequence, in order.
RECURSIVE OfProducer(_, _)
OfProducer(ms, p) ==
    IF ms = <<>> THEN <<>>
    ELSE IF Head(ms).kind = "record" /\ Head(ms).p = p
         THEN <<Head(ms)>> \o OfProducer(Tail(ms), p)
         ELSE OfProducer(Tail(ms), p)

SeqSet(ms) == {ms[i] : i \in 1..Len(ms)}

\* How often a message occurs in a sequence.
Count(ms, m) == Cardinality({i \in 1..Len(ms) : ms[i] = m})

\* ms is sub with some elements left out, the order kept.
RECURSIVE IsSubsequence(_, _)
IsSubsequence(sub, ms) ==
    IF sub = <<>> THEN TRUE
    ELSE IF ms = <<>> THEN FALSE
    ELSE IF Head(sub) = Head(ms) THEN IsSubsequence(Tail(sub), Tail(ms))
    ELSE IsSubsequence(sub, Tail(ms))

AllEmitted == \A p \in Producers : todo[p] = <<>>

\* C5, as claimed: every record that passes the level filter reaches the
\* output drain exactly once, however many records are queued: once every
\* producer is done and the live consumer has emptied the channel, each
\* such record is in the output once.
C5_ExactlyOnce ==
    (AllEmitted /\ chan = <<>> /\ worker = "running")
        => \A p \in Producers : \A r \in SeqSet(sent[p]) :
              PassesFilter(r) => Count(out, r) = 1

\* C5, amended: a record that passes the level filter reaches the output
\* drain at most once, and the records of one producer reach it in the
\* order submitted.  It is delivered exactly once when the channel has room
\* at the moment it is submitted and the consumer lives until it has
\* written it: a record submitted while the channel is full is dropped
\* (only the number of dropped records is reported later), and the records
\* still queued when the consumer dies, or emitted after that, are lost.
C5_AtMostOnceInOrder ==
    /\ \A p \in Producers :
         /\ IsSubsequence(OfProducer(out, p), sent[p])
         /\ IsSubsequence(OfProducer(chan, p), sent[p])
         /\ \A r \in SeqSet(sent[p]) :
              /\ Count(out, r) + Count(chan, r) <= 1
              /\ PassesFilter(r) =>
                    \/ Count(out, r) = 1
                    \/ Count(chan, r) = 1
                    \/ r \in overflowed
                    \/ r \in lostInFlight
              /\ (r \in overflowed \/ r \in lostInFlight \/ ~PassesFilter(r))
                    => Count(out, r) = 0
    /\ \A i \in 1..Len(out) :
         out[i].kind = "record" => out[i] \in SeqSet(sent[out[i].p])
    /\ (AllEmitted /\ chan = <<>> /\ overflowed = {} /\ lostInFlight = {})
         => \A p \in Producers :
              OfProducer(out, p) = SelectSeq(sent[p], PassesFilter)

\* C5, witness: both producers are done, the consumer is alive and has
\* emptied the channel, one record was dropped on overflow and the others
\* that pass the filter were written.
C5_Witness ==
    /\ AllEmitted /\ chan = <<>> /\ worker = "running"
    /\ \E r \in overflowed : PassesFilter(r)
    /\ \E p \in Producers : Len(OfProducer(out, p)) >= 2

====
